---- MODULE Spec2Model ----
(***************************************************************************)
(* S3LineReader: an S3 object is fetched in byte ranges and handed out     *)
(* record by record through an async generator.                            *)
(*                                                                         *)
(* Three readers are modelled, selected by `variant`:                      *)
(*   "ts"  src/s3-line-reader.ts  getLines(lineDelimiter) is itself the    *)
(*         async generator function: every call makes a new generator      *)
(*         object over the reader's shared fields.                         *)
(*   "p0"  src/unnamed/part_000   getLines() caches the generator made by  *)
(*         getLinesGenerator() in the field `generator`.                   *)
(*   "p1"  src/unnamed/part_001   getLines as in "ts", but the rest of a   *)
(*         chunk is appended to `partial` in place, and `partial` is put   *)
(*         in front of the first record of the next chunk.                 *)
(*                                                                         *)
(* A byte is one of "a" (an ASCII letter), "n" (an ASCII line feed),       *)
(* "L" (the lead byte of a two-byte UTF-8 sequence) and "T" (its           *)
(* continuation byte).  A string is a sequence of code units: "a", "n",    *)
(* "X" (the character encoded as L T) and "R" (U+FFFD, what the decoder    *)
(* puts for a malformed sequence).                                         *)
(*                                                                         *)
(* One action is one run of JavaScript between two suspension points of a  *)
(* generator (an await or a yield): such a run is atomic.                  *)
(***************************************************************************)
EXTENDS Integers, Sequences, FiniteSets, TLC

\* Bounds of the model.
MaxLen == 3        \* characters in the object's text
MaxBuffer == 2     \* largest bufferSize tried
MaxGens == 2       \* calls of getLines() on one reader

Chars == {"a", "n", "X"}
Delimiters == {<<"n">>, <<"a", "n">>, <<"X">>, <<"n", "X">>}
Variants == {"ts", "p0"}

Min(x, y) == IF x < y THEN x ELSE y

\* ---------------------------------------------------------------- strings

\* The UTF-8 encoding of a string (what the object store holds).
RECURSIVE Encode(_)
Encode(s) ==
    IF s = <<>> THEN <<>>
    ELSE (IF Head(s) = "X" THEN <<"L", "T">> ELSE <<Head(s)>>) \o Encode(Tail(s))

\* Buffer.prototype.toString(): UTF-8 decoding of one Buffer on its own; a lead
\* byte without its continuation byte, and a continuation byte without its lead
\* byte, each become U+FFFD.
RECURSIVE BufferToString(_)
BufferToString(b) ==
    IF b = <<>> THEN <<>>
    ELSE IF Head(b) = "L" /\ Len(b) >= 2 /\ b[2] = "T"
         THEN <<"X">> \o BufferToString(Tail(Tail(b)))
    ELSE IF Head(b) \in {"L", "T"} THEN <<"R">> \o BufferToString(Tail(b))
    ELSE <<Head(b)>> \o BufferToString(Tail(b))

\* String.prototype.substring(start, end) and substring(start), 0-based.
Substring(s, start, end) == SubSeq(s, Min(start, Len(s)) + 1, Min(end, Len(s)))
SubstringFrom(s, start) == SubSeq(s, Min(start, Len(s)) + 1, Len(s))

\* String.prototype.indexOf(d): the 0-based index of the first occurrence, or -1.
IndexOf(s, d) ==
    LET hits == {i \in 0..(Len(s) - Len(d)) : SubSeq(s, i + 1, i + Len(d)) = d}
    IN IF hits = {} THEN -1 ELSE CHOOSE i \in hits : \A j \in hits : i <= j

\* ---------------------------------------------------------------- storage

\* The body S3 returns for Range: bytes=start-end (inclusive on both ends, the
\* end clamped to the object's last byte), as the test's getObjectMock does.
RangeBody(bytes, start, end) == SubSeq(bytes, start + 1, Min(end + 1, Len(bytes)))

\* readStream: every data event is a Buffer, `buffer += d` decodes it on its own
\* and appends it.
RECURSIVE readStream(_)
readStream(events) ==
    IF events = <<>> THEN <<>>
    ELSE BufferToString(Head(events)) \o readStream(Tail(events))

\* ---------------------------------------------------------------- state

VARIABLES
    content,        \* the object's bytes
    config,         \* what the reader was constructed with
    variant,        \* which reader: "ts", "p0" or "p1"
    bufferSize,     \* constructor argument / config.bufferSize
    lineDelimiter,  \* getLines' argument ("ts"), the field lineDelimiter ("p0")
    byteOffset,     \* field byteOffset
    partial,        \* field partial
    size,           \* field size
    generator,      \* field generator of part_000 (0: undefined)
    gen,            \* the generator objects: position and local variables
    out,            \* per generator, the results its next() calls settled with
    log,            \* the requests sent to S3, in order
    handles,        \* what the calls of getLines() returned, in order, each with
                    \* the number of results its generator had settled by then
    maxCalls,       \* how many times the consumer calls getLines()
    failed,         \* the generators whose awaited promise was rejected
    failedAt,       \* per generator, the await that was rejected ("none": none)
    anomaly         \* S3 answered without ContentLength or without Body

vars == <<content, config, variant, bufferSize, lineDelimiter, byteOffset, partial,
          size, generator, gen, out, log, handles, maxCalls, failed, failedAt, anomaly>>

Texts == UNION {[1..n -> Chars] : n \in 0..MaxLen}
Gens == 1..MaxGens

\* The consumer stops after this many results of one sequence: more than a
\* sequence gives for a delimiter that is not empty, one result per byte being
\* the most, then the terminal step and one step after it.
MaxResults == 2 * MaxLen + 2

\* A generator object that does not exist yet / that has finished.
NoGen == [pc |-> "none", data |-> <<>>, nextNewline |-> 0, byteOffsetTop |-> 0,
          range |-> <<0, 0>>, body |-> <<>>]
Finished == [NoGen EXCEPT !.pc = "done"]

Created == Cardinality({g \in Gens : gen[g].pc # "none"})

\* No step is in progress: the consumer awaits the promise of every next() before
\* it calls next() or getLines() again (a for-await loop, the do-while loop of
\* the doc comment).
Idle == \A g \in Gens : gen[g].pc \notin {"head", "send", "read"}

\* The defaults of the fields of part_000: `lineDelimiter = '\n'` and
\* `bufferSize = 1024 * 128`.
DefaultLineDelimiter == <<"n">>
DefaultBufferSize == 131072

\* What a reader can be constructed with, and what the documentation allows: a
\* delimiter that is not empty and a buffer size of at least one byte.
Configs == [bufferSize : 0..MaxBuffer, lineDelimiter : Delimiters \cup {<<>>}]
ValidConfigs == {c \in Configs : c.bufferSize >= 1 /\ c.lineDelimiter # <<>>}

\* src/s3-line-reader.ts and part_001: `this.bufferSize = bufferSize;`, and the
\* delimiter is the argument of getLines, used as it comes.
constructor_ts(c) == c

\* part_000: `this.lineDelimiter = config.lineDelimiter || this.lineDelimiter;
\* this.bufferSize = config.bufferSize || this.bufferSize;` ('' and 0 are falsy).
constructor_p0(c) ==
    [bufferSize |-> IF c.bufferSize = 0 THEN DefaultBufferSize ELSE c.bufferSize,
     lineDelimiter |-> IF c.lineDelimiter = <<>> THEN DefaultLineDelimiter
                       ELSE c.lineDelimiter]

\* The state after `new S3LineReader(...)`, for a reader among `variants`
\* constructed with one of `configs` on an object among `contents`, whose
\* consumer calls getLines() one of `calls` times.
InitWith(variants, configs, contents, calls) ==
    /\ content \in contents
    /\ variant \in variants
    /\ config \in configs
    /\ bufferSize = (IF variant = "p0" THEN constructor_p0(config)
                                      ELSE constructor_ts(config)).bufferSize
    /\ lineDelimiter = (IF variant = "p0" THEN constructor_p0(config)
                                         ELSE constructor_ts(config)).lineDelimiter
    /\ byteOffset = 0
    /\ partial = <<>>
    /\ size = 0
    /\ generator = 0
    /\ gen = [g \in Gens |-> NoGen]
    /\ out = [g \in Gens |-> <<>>]
    /\ log = <<>>
    /\ handles = <<>>
    /\ maxCalls \in calls
    /\ failed = {}
    /\ failedAt = [g \in Gens |-> "none"]
    /\ anomaly = FALSE

Init == InitWith(Variants, ValidConfigs, {Encode(t) : t \in Texts}, 1..MaxGens)

\* ---------------------------------------------------------------- getLines

\* src/s3-line-reader.ts and part_001: `async *getLines`, a call makes a new
\* generator object.
getLines_ts(created) == created + 1

\* getLines of part_000 without its cache: a new generator on every call.
getLines_p0_uncached(cached, created) == created + 1

\* part_000: `if (!this.generator) this.generator = this.getLinesGenerator();
\* return this.generator;`
getLines_p0(cached, created) == IF cached = 0 THEN created + 1 ELSE cached

getLines ==
    LET h == IF variant = "p0" THEN getLines_p0(generator, Created)
                               ELSE getLines_ts(Created)
    IN /\ Idle
       /\ Len(handles) < maxCalls
       /\ h \in Gens
       /\ handles' = Append(handles, [gen |-> h, at |-> Len(out[h])])
       /\ generator' = IF variant = "p0" THEN h ELSE generator
       /\ gen' = IF gen[h].pc = "none" THEN [gen EXCEPT ![h].pc = "start"] ELSE gen
       /\ UNCHANGED <<content, config, variant, bufferSize, lineDelimiter, byteOffset,
                      partial, size, out, log, maxCalls, failed, failedAt, anomaly>>

\* ---------------------------------------------------------------- the loop

\* `let byteOffsetTop = this.byteOffset + this.bufferSize;
\*  if (byteOffsetTop > this.size) byteOffsetTop = this.size;`
ByteOffsetTop(bo, bs, sz) == IF bo + bs > sz THEN sz ELSE bo + bs

\* A cursor set to the inclusive end of the range, not past it.
AdvanceOffset_onEnd(top) == top

\* `this.byteOffset = byteOffsetTop + 1;`
AdvanceOffset(top) == top + 1

\* `data = this.partial + data;`
Prepend(pa, data) == pa \o data

\* A record cut one character late, with the start of the delimiter in it.
Line_late(data, nextNewline) == Substring(data, 0, nextNewline + 1)

\* `yield data.substring(0, nextNewline);`
Line(data, nextNewline) == Substring(data, 0, nextNewline)

\* A scan that leaves the yielded record in `data`.
Rest_same(data, nextNewline, d) == data

\* `data = data.substring(nextNewline + lineDelimiter.length);`
Rest(data, nextNewline, d) == SubstringFrom(data, nextNewline + Len(d))

\* `return this.partial;`
Terminal(pa) == pa

\* A loop that goes on while byteOffset is at most size.
loopHead_inclusive(bo, pa, sz, bs) ==
    IF bo <= sz
    THEN LET top == ByteOffsetTop(bo, bs, sz)
         IN [g |-> [NoGen EXCEPT !.pc = "send", !.byteOffsetTop = top,
                                 !.range = <<bo, top>>],
             partial |-> pa,
             results |-> <<>>,
             reqs |-> <<[op |-> "get", start |-> bo, end |-> top]>>]
    ELSE [g |-> Finished,
          partial |-> pa,
          results |-> <<[kind |-> "return", value |-> Terminal(pa)]>>,
          reqs |-> <<>>]

\* The head of `while (this.byteOffset < this.size)`: either the next range is
\* requested, or the loop is over and the generator returns.
loopHead(bo, pa, sz, bs) ==
    IF bo < sz
    THEN LET top == ByteOffsetTop(bo, bs, sz)
         IN [g |-> [NoGen EXCEPT !.pc = "send", !.byteOffsetTop = top,
                                 !.range = <<bo, top>>],
             partial |-> pa,
             results |-> <<>>,
             reqs |-> <<[op |-> "get", start |-> bo, end |-> top]>>]
    ELSE [g |-> Finished,
          partial |-> pa,
          results |-> <<[kind |-> "return", value |-> Terminal(pa)]>>,
          reqs |-> <<>>]

\* A scan that reads ahead: with a record to yield it already requests the next
\* range.
scanLoop_prefetch(data, d, bo, pa, sz, bs) ==
    IF Len(data) = 0 THEN loopHead(bo, pa, sz, bs)
    ELSE LET nextNewline == IndexOf(data, d)
         IN IF nextNewline = -1 THEN loopHead(bo, data, sz, bs)
            ELSE [g |-> [NoGen EXCEPT !.pc = "yield", !.data = data,
                                      !.nextNewline = nextNewline],
                  partial |-> pa,
                  results |-> <<[kind |-> "yield", value |-> Line(data, nextNewline)]>>,
                  reqs |-> loopHead(bo, pa, sz, bs).reqs]

\* `while (data.length) { ... }` from its head, with `data` in hand: a record is
\* yielded, or the rest goes to partial and the outer loop goes round.
scanLoop(data, d, bo, pa, sz, bs) ==
    IF Len(data) = 0 THEN loopHead(bo, pa, sz, bs)
    ELSE LET nextNewline == IndexOf(data, d)
         IN IF nextNewline = -1 THEN loopHead(bo, data, sz, bs)
            ELSE [g |-> [NoGen EXCEPT !.pc = "yield", !.data = data,
                                      !.nextNewline = nextNewline],
                  partial |-> pa,
                  results |-> <<[kind |-> "yield", value |-> Line(data, nextNewline)]>>,
                  reqs |-> <<>>]

\* part_001, `while (data.length) { ... }` from its head: a chunk without the
\* delimiter is appended to partial, and scanned again with it when the two
\* together hold the delimiter; a record found in `data` gets partial in front.
scanLoop_p1(data, d, bo, pa, sz, bs) ==
    IF Len(data) = 0 THEN loopHead(bo, pa, sz, bs)
    ELSE LET nextNewline == IndexOf(data, d)
             joined == pa \o data
         IN IF nextNewline = -1
            THEN IF IndexOf(joined, d) # -1
                 THEN [g |-> [NoGen EXCEPT !.pc = "yield", !.data = joined,
                                           !.nextNewline = IndexOf(joined, d)],
                       partial |-> <<>>,
                       results |-> <<[kind |-> "yield",
                                      value |-> Line(joined, IndexOf(joined, d))]>>,
                       reqs |-> <<>>]
                 ELSE loopHead(bo, joined, sz, bs)
            ELSE [g |-> [NoGen EXCEPT !.pc = "yield", !.data = data,
                                      !.nextNewline = nextNewline],
                  partial |-> <<>>,
                  results |-> <<[kind |-> "yield",
                                 value |-> pa \o Line(data, nextNewline)]>>,
                  reqs |-> <<>>]

\* getLines run to its end with no failure, as a function of the object: the
\* inner loop on one `data` (scanAll), the outer loop from byteOffset bo with
\* partial pa (fetchAll).
RECURSIVE scanAll(_, _)
scanAll(data, d) ==
    IF Len(data) = 0 THEN [records |-> <<>>, partial |-> <<>>]
    ELSE LET nextNewline == IndexOf(data, d)
         IN IF nextNewline = -1 THEN [records |-> <<>>, partial |-> data]
            ELSE LET r == scanAll(Rest(data, nextNewline, d), d)
                 IN [records |-> <<Line(data, nextNewline)>> \o r.records,
                     partial |-> r.partial]

RECURSIVE fetchAll(_, _, _, _, _)
fetchAll(bytes, d, bs, bo, pa) ==
    IF bo < Len(bytes)
    THEN LET top == ByteOffsetTop(bo, bs, Len(bytes))
             r == scanAll(Prepend(pa, readStream(<<RangeBody(bytes, bo, top)>>)), d)
             rest == fetchAll(bytes, d, bs, AdvanceOffset(top), r.partial)
         IN [records |-> r.records \o rest.records, terminal |-> rest.terminal]
    ELSE [records |-> <<>>, terminal |-> Terminal(pa)]

getLinesRun(bytes, d, bs) == fetchAll(bytes, d, bs, 0, <<>>)

\* A getLines that catches the rejection and leaves the loop: the step settles
\* with `return this.partial`.
onReject_swallowed(pa) ==
    [g |-> Finished, partial |-> pa,
     results |-> <<[kind |-> "return", value |-> Terminal(pa)]>>, reqs |-> <<>>]

\* An awaited promise rejects: getLines has no try/catch, the exception leaves
\* the generator, which is finished, and the pending next() rejects with it.
onReject(pa) ==
    [g |-> Finished, partial |-> pa,
     results |-> <<[kind |-> "throw", value |-> <<>>]>>, reqs |-> <<>>]

\* A getLines that skips a range answered without Body and goes round the loop.
onNoBody_continue(bo, pa, sz, bs) == loopHead(bo, pa, sz, bs)

\* `if (!file.Body) break;` and then `return this.partial;`: the answer has no
\* Body, the loop is left whatever byteOffset is.
onNoBody(bo, pa, sz, bs) ==
    [g |-> Finished, partial |-> pa,
     results |-> <<[kind |-> "return", value |-> Terminal(pa)]>>, reqs |-> <<>>]

\* The generator g goes on to the suspension point m.
Goes(g, m) ==
    /\ gen' = [gen EXCEPT ![g] = m.g]
    /\ partial' = m.partial
    /\ out' = [out EXCEPT ![g] = @ \o m.results]
    /\ log' = log \o m.reqs

\* ---------------------------------------------------------------- steps

\* The consumer calls next() on a handle it got from getLines().
\*   not started: the body runs up to `await this.s3.headObject(...)`;
\*   at a yield:  `data = data.substring(...)`, and the scan goes on;
\*   finished:    the call settles with { done: true, value: undefined }; `out`
\*                keeps the first of a run of such results.
next(g) ==
    /\ Idle
    /\ \E i \in 1..Len(handles) : handles[i].gen = g
    /\ Len(out[g]) < MaxResults
    /\ \/ /\ gen[g].pc = "start"
          /\ gen' = [gen EXCEPT ![g].pc = "head"]
          /\ log' = Append(log, [op |-> "head", start |-> 0, end |-> 0])
          /\ UNCHANGED <<partial, out>>
       \/ /\ gen[g].pc = "yield"
          /\ LET data == Rest(gen[g].data, gen[g].nextNewline, lineDelimiter)
             IN Goes(g, IF variant = "p1"
                        THEN scanLoop_p1(data, lineDelimiter, byteOffset, partial,
                                         size, bufferSize)
                        ELSE scanLoop(data, lineDelimiter, byteOffset, partial,
                                      size, bufferSize))
       \/ /\ gen[g].pc = "done"
          /\ out[g][Len(out[g])].kind # "end"
          /\ out' = [out EXCEPT ![g] = Append(@, [kind |-> "end", value |-> <<>>])]
          /\ UNCHANGED <<gen, partial, log>>
    /\ UNCHANGED <<content, config, variant, bufferSize, lineDelimiter, byteOffset, size,
                   generator, handles, maxCalls, failed, failedAt, anomaly>>

\* headObject resolves: `this.size = headObject.ContentLength ?? 0`, then the
\* loop's head.  hasLength = FALSE: the answer carries no ContentLength.
headResolves(g, hasLength) ==
    /\ gen[g].pc = "head"
    /\ size' = IF hasLength THEN Len(content) ELSE 0
    /\ anomaly' = (anomaly \/ ~hasLength)
    /\ Goes(g, loopHead(byteOffset, partial, size', bufferSize))
    /\ UNCHANGED <<content, config, variant, bufferSize, lineDelimiter, byteOffset,
                   generator, handles, maxCalls, failed, failedAt>>

\* s3.send resolves: `this.byteOffset = byteOffsetTop + 1; if (!file.Body) break;`
\* and readStream starts on the body.
sendResolves(g, hasBody) ==
    /\ gen[g].pc = "send"
    /\ byteOffset' = AdvanceOffset(gen[g].byteOffsetTop)
    /\ anomaly' = (anomaly \/ ~hasBody)
    /\ IF hasBody
       THEN /\ gen' = [gen EXCEPT ![g].pc = "read",
                                  ![g].body = RangeBody(content, gen[g].range[1],
                                                        gen[g].range[2])]
            /\ UNCHANGED <<partial, out, log>>
       ELSE Goes(g, onNoBody(byteOffset', partial, size, bufferSize))
    /\ UNCHANGED <<content, config, variant, bufferSize, lineDelimiter, size, generator,
                   handles, maxCalls, failed, failedAt>>

\* readStream resolves (the stream ended): `data = this.partial + data;
\* this.partial = '';` and the scan starts; in part_001 the scan starts on the
\* chunk alone.  The body arrives as one data event, as from the test's
\* Readable.from(bytes).
readResolves(g) ==
    /\ gen[g].pc = "read"
    /\ Goes(g, IF variant = "p1"
               THEN scanLoop_p1(readStream(<<gen[g].body>>), lineDelimiter,
                                byteOffset, partial, size, bufferSize)
               ELSE scanLoop(Prepend(partial, readStream(<<gen[g].body>>)),
                             lineDelimiter, byteOffset, <<>>, size, bufferSize))
    /\ UNCHANGED <<content, config, variant, bufferSize, lineDelimiter, byteOffset, size,
                   generator, handles, maxCalls, failed, failedAt, anomaly>>

\* The awaited promise rejects (headObject, send, or the stream's 'error'):
\* nothing catches it, the generator finishes and next() rejects.
rejects(g) ==
    /\ gen[g].pc \in {"head", "send", "read"}
    /\ failed' = failed \cup {g}
    /\ failedAt' = [failedAt EXCEPT ![g] = gen[g].pc]
    /\ Goes(g, onReject(partial))
    /\ UNCHANGED <<content, config, variant, bufferSize, lineDelimiter, byteOffset, size,
                   generator, handles, maxCalls, anomaly>>

Next ==
    \/ getLines
    \/ \E g \in Gens : next(g)
    \/ \E g \in Gens, hasLength \in BOOLEAN : headResolves(g, hasLength)
    \/ \E g \in Gens, hasBody \in BOOLEAN : sendResolves(g, hasBody)
    \/ \E g \in Gens : readResolves(g)
    \/ \E g \in Gens : rejects(g)

Spec == Init /\ [][Next]_vars

\* The reader of part_000 alone.
InitP0 == Init /\ variant = "p0"
SpecP0 == InitP0 /\ [][Next]_vars

\* One call of getLines(): one reader drives one sequence.
InitSingle == Init /\ maxCalls = 1
SpecSingle == InitSingle /\ [][Next]_vars

\* The promise generator g awaits settles: S3 answers or fails.
Settles(g) ==
    \/ \E hasLength \in BOOLEAN : headResolves(g, hasLength)
    \/ \E hasBody \in BOOLEAN : sendResolves(g, hasBody)
    \/ readResolves(g)
    \/ rejects(g)

\* One sequence per reader, whose consumer calls getLines() and keeps calling
\* next() (the do-while loop of the doc comment, a for-await loop), while every
\* request to S3 is answered or fails in the end.
SpecLive ==
    /\ InitSingle
    /\ [][Next]_vars
    /\ WF_vars(getLines)
    /\ \A g \in Gens : WF_vars(next(g)) /\ WF_vars(Settles(g))

\* Readers constructed with whatever the constructor accepts, the empty
\* delimiter and the buffer size 0 included.
InitConfig == InitWith(Variants, Configs, {Encode(t) : t \in Texts}, {1})
SpecConfig == InitConfig /\ [][Next]_vars

\* The reader of part_001, one sequence, on ASCII text of up to twice MaxLen
\* characters (a chunk of MaxBuffer + 1 bytes then holds a whole delimiter of
\* two characters after the second half of another).
TextsP1 == UNION {[1..n -> {"a", "n"}] : n \in 0..(2 * MaxLen)}
InitP1 == InitWith({"p1"}, ValidConfigs, {Encode(t) : t \in TextsP1}, {1})
SpecP1 == InitP1 /\ [][Next]_vars

\* ---------------------------------------------------------------- what is observed

\* The object's text, and its records: the text cut at every occurrence of the
\* delimiter, scanning left to right; the last one is what follows the last
\* occurrence.
Text == BufferToString(content)

RECURSIVE Split(_, _)
Split(s, d) ==
    LET i == IndexOf(s, d)
    IN IF i = -1 THEN <<s>>
       ELSE <<Substring(s, 0, i)>> \o Split(SubstringFrom(s, i + Len(d)), d)

RECURSIVE Join(_, _)
Join(recs, d) ==
    IF Len(recs) = 0 THEN <<>>
    ELSE IF Len(recs) = 1 THEN recs[1]
    ELSE recs[1] \o d \o Join(Tail(recs), d)

Front(s) == SubSeq(s, 1, Len(s) - 1)
Last(s) == s[Len(s)]
IsPrefix(s, t) == Len(s) <= Len(t) /\ SubSeq(t, 1, Len(s)) = s

Values(rs) == [i \in 1..Len(rs) |-> rs[i].value]

\* The records generator g yielded (the payloads of its steps with done = false),
\* whether it returned, and the payload of that step.
Records(g) == Values(SelectSeq(out[g], LAMBDA r : r.kind = "yield"))
Returned(g) == \E i \in 1..Len(out[g]) : out[g][i].kind = "return"
TerminalOf(g) == Values(SelectSeq(out[g], LAMBDA r : r.kind = "return"))[1]
Outcome(g) == [records |-> Records(g), terminal |-> TerminalOf(g)]

\* g is the reader's only sequence, every answer of S3 was complete, and g has
\* been stepped to its end.
Completed(g) == Created = 1 /\ ~anomaly /\ Returned(g)

\* ---------------------------------------------------------------- claims

\* C1: round trip.  When the reader's one sequence has been stepped to its end
\* with every fetch succeeding, the yielded records and the terminal value,
\* joined with the delimiter, are the object's content, byte for byte.
C1_RoundTrip ==
    \A g \in Gens :
        Completed(g) =>
            Encode(Join(Records(g) \o <<TerminalOf(g)>>, lineDelimiter)) = content

\* C2: chunk-size independence.  The records and the terminal value the sequence
\* produced are those getLines produces for every other chunk size, from 1 to
\* one more than the object's size.
C2_ChunkSizeIndependent ==
    \A g \in Gens :
        Completed(g) =>
            \A bs \in 1..(Len(content) + 1) :
                Outcome(g) = getLinesRun(content, lineDelimiter, bs)

\* The byte offset of the character at index i of the text.
ByteIndex(i) == Len(Encode(Substring(Text, 0, i)))

\* The delimiter occurrence at index i of the text has bytes on both sides of the
\* start of a requested range.
Straddles(i) ==
    \E k \in 1..Len(log) :
        /\ log[k].op = "get"
        /\ ByteIndex(i) < log[k].start
        /\ log[k].start < ByteIndex(i) + Len(Encode(lineDelimiter))

\* C3: a delimiter straddling a fetch boundary.  When the first occurrence of a
\* delimiter of two or more characters straddles the boundary of two fetched
\* ranges, the first step yields the text before it, and the second step's
\* payload is the record that starts right after it.
C3_StraddlingDelimiter ==
    \A g \in Gens :
        LET i == IndexOf(Text, lineDelimiter)
        IN (Completed(g) /\ Len(lineDelimiter) >= 2 /\ i # -1 /\ Straddles(i)) =>
              /\ Len(out[g]) >= 2
              /\ out[g][1] = [kind |-> "yield", value |-> Substring(Text, 0, i)]
              /\ out[g][2].value =
                     Head(Split(SubstringFrom(Text, i + Len(lineDelimiter)),
                                lineDelimiter))

\* What `for await (let line of reader.getLines())` binds to `line`: the payloads
\* of the steps with done = false; the loop ends at the first step with
\* done = true and drops its payload.
ForAwait(g) == Records(g)

\* C4: a for-await consumer receives every record of the object, the last
\* record, which has no trailing delimiter, included.
C4_ForAwaitReceivesAll ==
    \A g \in Gens :
        (Completed(g) /\ Last(Split(Text, lineDelimiter)) # <<>>) =>
            ForAwait(g) = Split(Text, lineDelimiter)

\* C5: one terminal value per object.  When every fetch succeeds, whatever the
\* steps and the calls of getLines() on the reader, no sequence delivers a
\* terminal value twice, and a trailing remainder that is not empty is delivered
\* by one step of one sequence only.
C5_OneTerminalValue ==
    (failed = {} /\ ~anomaly) =>
        /\ \A g \in Gens : Len(SelectSeq(out[g], LAMBDA r : r.kind = "return")) <= 1
        /\ \A g1, g2 \in Gens :
               (Returned(g1) /\ Returned(g2) /\ TerminalOf(g1) # <<>>) => g1 = g2

\* C6: same progression on repeated start (part_000).  A call of getLines() on a
\* reader that has made its generator returns that generator, taken up where its
\* consumed steps left it, changes none of byteOffset, partial and size, no
\* generator's position or results, and sends no request.
C6_SameProgression ==
    [][(variant = "p0" /\ handles' # handles /\ generator # 0) =>
          /\ Last(handles').gen = generator
          /\ Last(handles').gen = handles[1].gen
          /\ Last(handles').at = Len(out[generator])
          /\ UNCHANGED <<byteOffset, partial, size, generator, gen, out, log>>]_vars

\* getLines() was called again after at least one step had been consumed, and a
\* further step was then taken through the handle it returned.
C6_Witness ==
    /\ variant = "p0"
    /\ Len(handles) >= 2
    /\ handles[2].at >= 1
    /\ Len(out[handles[2].gen]) > handles[2].at

\* C7: empty-record preservation.  Every delimiter occurrence gives one yielded
\* record: there are as many yielded records as occurrences, and the yielded
\* record at a position is empty exactly when the object's record there is.
C7_EmptyRecords ==
    \A g \in Gens :
        Completed(g) =>
            LET recs == Split(Text, lineDelimiter)
            IN /\ Len(Records(g)) = Len(recs) - 1
               /\ \A i \in 1..Len(Records(g)) :
                      (Records(g)[i] = <<>>) <=> (i < Len(recs) /\ recs[i] = <<>>)

\* C8: an object without any delimiter.  For content that is not empty and does
\* not contain the delimiter, the first step reports done = true with the whole
\* content as payload, and no step reports done = false.
C8_NoDelimiter ==
    \A g \in Gens :
        (/\ Created = 1 /\ ~anomaly /\ failed = {}
         /\ Text # <<>> /\ IndexOf(Text, lineDelimiter) = -1
         /\ Len(out[g]) >= 1) =>
            /\ out[g][1] = [kind |-> "return", value |-> Text]
            /\ Records(g) = <<>>

\* C9: an object ending exactly on a delimiter.  When the object's last record
\* is the empty one after a final delimiter occurrence, the terminal value is
\* the empty string and the record before that delimiter is the last yielded
\* record.
C9_EndsOnDelimiter ==
    \A g \in Gens :
        LET recs == Split(Text, lineDelimiter)
        IN (Completed(g) /\ Len(recs) >= 2 /\ Last(recs) = <<>>) =>
              /\ TerminalOf(g) = <<>>
              /\ Records(g) # <<>>
              /\ Last(Records(g)) = recs[Len(recs) - 1]

\* The results of a sequence whose awaited promise was rejected: records, then
\* the rejected step, then nothing but { done: true, value: undefined }.
FailedShape(rs) ==
    \E k \in 1..Len(rs) :
        /\ rs[k].kind = "throw"
        /\ \A i \in 1..(k - 1) : rs[i].kind = "yield"
        /\ \A i \in (k + 1)..Len(rs) : rs[i].kind = "end"

\* C10: failure propagation.  When the size query, a range request or the
\* reading of a body fails, the step in progress is rejected and settles with no
\* result; from then on the sequence gives no record and no terminal value and
\* sends no request; and the records yielded before the failure are a prefix of
\* the records of the run without failure on the same object.
C10_FailurePropagation ==
    [][/\ \A g \in failed' \ failed :
              /\ Len(out'[g]) = Len(out[g]) + 1
              /\ Last(out'[g]).kind = "throw"
              /\ log' = log
       /\ \A g \in failed :
              /\ log' = log
              /\ gen'[g] = Finished
       /\ \A g \in failed' :
              /\ FailedShape(out'[g])
              /\ IsPrefix(Records(g)',
                          getLinesRun(content, lineDelimiter, bufferSize).records)]_vars

\* A sequence failed after it had yielded a record, and a later next() on it was
\* answered.
C10_Witness ==
    \E g \in failed :
        /\ Len(Records(g)) >= 1
        /\ Last(out[g]).kind = "end"

\* C11: configuration validation.  A reader constructed with an empty delimiter
\* or with a buffer size of 0 or less fails at construction: it never sends a
\* size query or a range request.
C11_ConfigurationRejected ==
    (config.lineDelimiter = <<>> \/ config.bufferSize <= 0) => log = <<>>

\* C12: cursor bounds.  Once the size is known, byteOffset stays between 0 and
\* size, and it is size when the sequence has returned with the object
\* exhausted.
C12_CursorWithinSize ==
    \A g \in Gens :
        (/\ Created = 1 /\ ~anomaly
         /\ gen[g].pc \notin {"none", "start", "head"} /\ failedAt[g] # "head") =>
            /\ 0 <= byteOffset
            /\ byteOffset <= size
            /\ Returned(g) => byteOffset = size

\* C13: per-fetch size limit.  Every range request asks for at most bufferSize
\* bytes, and its inclusive end is at most the index of the object's last byte.
C13_FetchAtMostBufferSize ==
    \A k \in 1..Len(log) :
        log[k].op = "get" =>
            /\ log[k].end - log[k].start + 1 <= bufferSize
            /\ log[k].end <= Len(content) - 1

\* A step of generator g is in progress: a next() the consumer called on it has
\* not settled.
InStep(g) == gen[g].pc \in {"head", "send", "read"}

\* C14: demand-driven fetching.  A request goes out one at a time, from a step
\* the consumer asked for (its next() call, or the step that call started) and
\* that is still in progress when the request is out; a range is requested
\* only with no delimiter in the text held back; no two steps are in progress
\* at once; and with no step in progress nothing but a call of next() sends a
\* request.
C14_DemandDriven ==
    [][/\ Cardinality({g \in Gens : InStep(g)}) <= 1
       /\ log' # log =>
              \E g \in Gens :
                  /\ Len(log') = Len(log) + 1
                  /\ gen[g].pc \in {"start", "yield", "head", "read"}
                  /\ Idle <=> gen[g].pc \in {"start", "yield"}
                  /\ InStep(g)'
                  /\ out' = out
                  /\ Last(log').op = "get" =>
                         /\ gen'[g].pc = "send"
                         /\ gen'[g].data = <<>>
                         /\ IndexOf(partial', lineDelimiter) = -1]_vars

\* A range was requested by a step taken after a record had been yielded, with
\* text held back.
C14_Witness ==
    \E g \in Gens :
        /\ gen[g].pc = "send"
        /\ Len(Records(g)) >= 1
        /\ partial # <<>>

\* C15: variant equivalence.  The reader of part_001, stepped to its end with
\* every fetch succeeding, has yielded the records and returned the terminal
\* value that the getLines of src/s3-line-reader.ts produces for the same
\* object, delimiter and buffer size.
C15_SameAsPrepend ==
    \A g \in Gens :
        (variant = "p1" /\ Completed(g)) =>
            Outcome(g) = getLinesRun(content, lineDelimiter, bufferSize)

\* The bytes the reader has received (the ranges up to byteOffset, every answer
\* complete), and the bytes of the records generator g has yielded, each with
\* the delimiter that ended it.
Fetched == SubSeq(content, 1, Min(byteOffset, Len(content)))

RECURSIVE Delimited(_, _)
Delimited(recs, d) ==
    IF recs = <<>> THEN <<>> ELSE Head(recs) \o d \o Delimited(Tail(recs), d)

Consumed(g) == Encode(Delimited(Records(g), lineDelimiter))

\* C16: carry invariant.  When the reader's one sequence has just sent a range
\* request, and when it has returned, partial holds no occurrence of the
\* delimiter and is exactly the bytes received so far that follow the last
\* delimiter consumed into a yielded record.
C16_CarryInvariant ==
    \A g \in Gens :
        (Created = 1 /\ ~anomaly /\ (gen[g].pc = "send" \/ Returned(g))) =>
            /\ IndexOf(partial, lineDelimiter) = -1
            /\ Consumed(g) \o Encode(partial) = Fetched

\* The range requests sent so far, in order.
Gets == SelectSeq(log, LAMBDA r : r.op = "get")

\* How often the byte at index i has been requested.
Requested(i) == Cardinality({k \in 1..Len(Gets) : Gets[k].start <= i /\ i <= Gets[k].end})

\* C17: range bookkeeping.  byteOffset is 0 until the first range request is
\* answered; every answered range request moves it up, to one past the
\* inclusive end of the range, and nothing else moves it; the first range
\* starts at byte 0 and every later one starts one past the end of the one
\* before, none being empty; and when the sequence has returned with
\* byteOffset at or past size, every byte index below size has been requested
\* exactly once.
C17_RangeBookkeeping ==
    [][/\ \A g \in Gens :
              IF gen[g].pc = "send" /\ gen'[g].pc # "send" /\ g \notin failed'
              THEN /\ byteOffset' > byteOffset
                   /\ byteOffset' = Last(Gets).end + 1
              ELSE gen[g].pc # "none" => byteOffset' = byteOffset
       /\ Gets' = <<>> => byteOffset' = 0
       /\ \A k \in 1..Len(Gets') :
              /\ Gets'[k].start = (IF k = 1 THEN 0 ELSE Gets'[k - 1].end + 1)
              /\ Gets'[k].start <= Gets'[k].end
       /\ \A g \in Gens :
              (Returned(g)' /\ byteOffset' >= size') =>
                  \A i \in 0..(size' - 1) : Requested(i)' = 1]_vars

\* The sequence has returned after three answered range requests that covered
\* the object.
C17_Witness ==
    \E g \in Gens :
        /\ Returned(g)
        /\ failed = {} /\ ~anomaly
        /\ Len(Gets) >= 3
        /\ byteOffset >= size

\* C18: empty or size-less object.  When the size query of the reader's one
\* sequence was answered with length 0 or with no length, no range is
\* requested, no record is yielded, and the first step is the terminal one,
\* with the empty string.
C18_EmptyObject ==
    \A g \in Gens :
        (/\ Created = 1 /\ failedAt[g] = "none"
         /\ gen[g].pc \notin {"none", "start", "head"} /\ size = 0) =>
            /\ Gets = <<>>
            /\ Records(g) = <<>>
            /\ Len(out[g]) >= 1
            /\ out[g][1] = [kind |-> "return", value |-> <<>>]

\* The size query on an object that is not empty was answered without a
\* length, and the sequence was stepped.
C18_Witness ==
    \E g \in Gens :
        /\ Created = 1
        /\ content # <<>> /\ anomaly /\ size = 0
        /\ Returned(g)

\* A range request of g is answered without Body (in a reader's one sequence
\* no answer before that one was incomplete).
NoBodyAnswer(g) == gen[g].pc = "send" /\ ~anomaly /\ anomaly'

\* C19: early end of object.  When a range request is answered without Body,
\* the step in progress is the terminal one, with the text held in partial at
\* that moment as payload; no request is sent by it or after it, and the
\* sequence yields no further record and keeps its terminal value.
C19_EarlyEnd ==
    [][\A g \in Gens :
          /\ NoBodyAnswer(g) =>
                 /\ gen'[g] = Finished
                 /\ out'[g] = Append(out[g], [kind |-> "return", value |-> partial])
                 /\ partial' = partial
                 /\ log' = log
          /\ (anomaly /\ size > 0 /\ gen[g].pc = "done") =>
                 /\ gen'[g] = Finished
                 /\ log' = log
                 /\ Records(g)' = Records(g)
                 /\ TerminalOf(g)' = TerminalOf(g)]_vars

\* A range request was answered without Body with text held back and bytes of
\* the object not yet requested, and a later step was taken.
C19_Witness ==
    \E g \in Gens :
        /\ Created = 1
        /\ anomaly /\ size > 0 /\ byteOffset < size
        /\ Returned(g) /\ TerminalOf(g) # <<>>
        /\ Last(out[g]).kind = "end"

\* C20: no resumption after a failure (src/s3-line-reader.ts).  When the
\* reading of a range's body has failed, byteOffset is past that range and its
\* bytes were never delivered; from then on no step on the reader that reads a
\* later range settles with a record or a terminal value, which could only
\* hold text from after the lost range.
C20_NoResumption ==
    [][\A g1, g2 \in Gens :
          (variant = "ts" /\ failedAt[g1] = "read" /\ gen[g2].pc = "read") =>
              \A i \in (Len(out[g2]) + 1)..Len(out'[g2]) :
                  out'[g2][i].kind = "throw"]_vars

\* C21: delimiter-free output (src/s3-line-reader.ts and part_000).  No record
\* a sequence yielded and no terminal value it returned holds the delimiter.
C21_DelimiterFree ==
    \A g \in Gens :
        \A i \in 1..Len(out[g]) :
            out[g][i].kind \in {"yield", "return"} =>
                IndexOf(out[g][i].value, lineDelimiter) = -1

\* A sequence went through two ranges or more, yielded two records or more and
\* returned a terminal value that is not empty.
C21_Witness ==
    \E g \in Gens :
        /\ Completed(g)
        /\ Len(Gets) >= 2
        /\ Len(Records(g)) >= 2
        /\ TerminalOf(g) # <<>>

\* C22: termination.  A scan that yields again from the same chunk does so on a
\* strictly shorter `data`; every answered range request moves byteOffset up;
\* and a sequence that was started and whose consumer keeps stepping it comes
\* to its terminal step, unless a request of it fails.
C22_Termination ==
    /\ [][\A g \in Gens :
              /\ (gen[g].pc = "yield" /\ gen'[g].pc = "yield") =>
                     Len(gen'[g].data) < Len(gen[g].data)
              /\ (gen[g].pc = "send" /\ gen'[g].pc # "send" /\ g \notin failed') =>
                     byteOffset' > byteOffset]_vars
    /\ \A g \in Gens : (gen[g].pc = "start") ~> (Returned(g) \/ g \in failed)

\* A sequence came to its terminal step after three answered range requests,
\* having yielded two records out of one chunk.
C22_Witness ==
    \E g \in Gens :
        /\ Completed(g) /\ failed = {}
        /\ Len(Gets) >= 3
        /\ \E i \in 1..(Len(out[g]) - 1) :
               out[g][i].kind = "yield" /\ out[g][i + 1].kind = "yield"

\* The object holds one-byte characters only: no range can cut a character.
Ascii == \A i \in 1..Len(content) : content[i] \notin {"L", "T"}

\* How often v occurs in the sequence s.
Count(s, v) == Cardinality({i \in 1..Len(s) : s[i] = v})

\* C23: interleaved sequences on one reader (src/s3-line-reader.ts).  When
\* getLines() was called twice on a reader and both sequences have been stepped
\* to their end, in whatever order, with every fetch succeeding, the records
\* the two have yielded are, taken together, the delimited records of the
\* object, each as often as the object has it, and the object's last record is
\* the terminal value of one of them, of exactly one when it is not empty.
C23_InterleavedSequences ==
    (/\ variant = "ts" /\ Created = 2 /\ failed = {} /\ ~anomaly /\ Ascii
     /\ Returned(1) /\ Returned(2)) =>
        LET recs == Split(Text, lineDelimiter)
            yielded == Records(1) \o Records(2)
            terminals == <<TerminalOf(1), TerminalOf(2)>>
        IN /\ \A i \in 1..Len(yielded) :
                  Count(yielded, yielded[i]) = Count(Front(recs), yielded[i])
           /\ \A i \in 1..(Len(recs) - 1) :
                  Count(yielded, recs[i]) = Count(Front(recs), recs[i])
           /\ Count(terminals, Last(recs)) >= 1
           /\ Last(recs) # <<>> => Count(terminals, Last(recs)) = 1

====
